---- MODULE Spec2Model ----
(***************************************************************************)
(* Spectra: the streaming scan-and-aggregate engine (spectra-core) and the *)
(* snapshot server's velocity engine (server).                             *)
(*                                                                         *)
(* SpecScan     one Scanner::scan call over a bounded file tree            *)
(* SpecVelocity the match of get_velocity over two lookup results          *)
(* SpecServer   ingest / history / velocity handlers over the store        *)
(* SpecReconcile the match of get_velocity over sampled extension lists    *)
(* SpecRescan   a second Scanner::scan call over the tree of the first     *)
(* SpecGovernance Policy::evaluate and Policy::execute over a few files    *)
(***************************************************************************)
EXTENDS Integers, Sequences, FiniteSets, Bags, TLC

\* ------------------------------------------------------------------ bounds
MaxEntries == 3      \* entries the walker yields below the root
MaxSize == 2         \* file sizes are 0..MaxSize
MaxTopLimit == 2     \* top_limit is 0..MaxTopLimit
WordBits == 12       \* the width the code's 64-bit integers are modelled at
MaxSnapshots == 2    \* snapshots the store takes in
MaxTime == 2         \* ingested timestamps are 1..MaxTime, queried ones 0..MaxTime
MaxExts == 2         \* tuples in a sampled top_extensions list
MaxFiles == 2        \* files the governance engine is called on

\* ------------------------------------------------------------------- state
\* Scanner::scan calls (spectra-core/src/scanner.rs), then the snapshot
\* server (server/src/main.rs), then the governance engine
\* (cli/src/governance/engine.rs)
VARIABLES
  first_scan,       \* the ScanStats an earlier scan of this tree returned, if any
  root_ok,          \* the root can be opened by the walker
  tree,             \* path -> entry: what lies below the root
  top_limit,        \* Scanner::top_limit
  pending,          \* paths the walker has not yielded yet
  stats,            \* the ScanStats being built
  top_files_heap,   \* the BinaryHeap's backing Vec
  offered,          \* the FileRecord pushed in the current iteration, if any
  pc,               \* "idle" | "root" | "walk" | "evict" | "done"
  result,           \* what scan() returned: None while running, Some("Ok")
  snapshots,        \* the "snapshots" table, a bag of AgentSnapshot
  vq,               \* the get_velocity call in flight
  vel_resp,         \* the VelocityReport sent, if get_velocity answered last
  ingest_resp,      \* the acknowledgement sent, if ingest_snapshot answered last
  hist_resp,        \* the get_agent_history call that answered last, if any
  fs,               \* path -> metadata of the files the engine is called on
  gov,              \* the last Policy call: its arguments and what it returned
  other_scan,       \* the locals of a second Scanner::scan call in flight
  cli               \* the locals of the CLI's main, with its arguments

scanVars ==
  <<first_scan, root_ok, tree, top_limit, pending, stats, top_files_heap, offered,
    pc, result>>
serverVars == <<snapshots, vq, vel_resp, ingest_resp, hist_resp>>
govVars == <<fs, gov>>
vars == <<scanVars, serverVars, govVars, other_scan, cli>>

\* ------------------------------------------------------------ Option values
None == <<>>
Some(x) == <<x>>
IsSome(o) == Len(o) = 1
Unwrap(o) == o[1]

\* ------------------------------------------------------------- generic math
RECURSIVE SumOver(_, _)
SumOver(S, f) ==
  IF S = {} THEN 0
  ELSE LET x == CHOOSE y \in S : TRUE IN f[x] + SumOver(S \ {x}, f)

Range(s) == {s[i] : i \in DOMAIN s}

\* ================================================================ SCANNER ==
\* Extensions are strings of characters; the walker's paths are 1..MaxEntries.
Exts == { <<"t", "x", "t">>, <<"T", "X", "T">>, <<"b", "i", "n">> }

\* str::to_lowercase, character by character
ToLowerChar(c) ==
  CASE c = "T" -> "t"
    [] c = "X" -> "x"
    [] c = "B" -> "b"
    [] c = "I" -> "i"
    [] c = "N" -> "n"
    [] OTHER -> c

to_lowercase(s) == [i \in DOMAIN s |-> ToLowerChar(s[i])]

\* What the walker and the filesystem say about one entry below the root.
\*   entry_ok  the walker yielded Ok(dir_entry)     (scanner.rs:36)
\*   meta_ok   dir_entry.metadata() returned Ok     (scanner.rs:37)
\*   kind      "file" | "dir" | "other" (symlink, socket, ...)
\*   len       meta.len()
\*   ext       dir_entry.path().extension()
FileEntry(n, e) ==
  [entry_ok |-> TRUE, meta_ok |-> TRUE, kind |-> "file", len |-> n, ext |-> e]
DirEntry ==
  [entry_ok |-> TRUE, meta_ok |-> TRUE, kind |-> "dir", len |-> 0, ext |-> None]
OtherEntry ==
  [entry_ok |-> TRUE, meta_ok |-> TRUE, kind |-> "other", len |-> 0, ext |-> None]
WalkErrEntry ==
  [entry_ok |-> FALSE, meta_ok |-> FALSE, kind |-> "other", len |-> 0, ext |-> None]
MetaErrEntry ==
  [entry_ok |-> TRUE, meta_ok |-> FALSE, kind |-> "other", len |-> 0, ext |-> None]

Entries ==
  { FileEntry(n, e) : n \in 0..MaxSize, e \in {None} \cup {Some(x) : x \in Exts} }
    \cup {DirEntry, OtherEntry, WalkErrEntry, MetaErrEntry}

RECURSIVE SetToSeq(_)
SetToSeq(S) ==
  IF S = {} THEN <<>>
  ELSE LET x == CHOOSE y \in S : TRUE IN <<x>> \o SetToSeq(S \ {x})

\* The trees of at most MaxEntries entries. Paths are interchangeable names and
\* the walk below takes them in every order, so one tree stands for all its
\* renamings: entries are laid out along 1..n in one fixed order of Entries.
Trees ==
  LET order == SetToSeq(Entries)
      Sorted(n) == { g \in [1..n -> 1..Len(order)] :
                       \A i \in 1..(n - 1) : g[i] <= g[i + 1] }
  IN UNION { { [i \in 1..n |-> order[g[i]]] : g \in Sorted(n) } : n \in 0..MaxEntries }

\* ---------------------------------------------------------------- models.rs
FileRecord(p, n) == [path |-> p, size_bytes |-> n]

\* u64::cmp
U64Cmp(a, b) == IF a < b THEN "Less" ELSE IF a = b THEN "Equal" ELSE "Greater"

\* A plausible slip: the natural order instead of the reversed one.
FileRecordCmpNatural(self, other) == U64Cmp(self.size_bytes, other.size_bytes)

\* impl Ord for FileRecord: reversed on size_bytes
FileRecordCmp(self, other) == U64Cmp(other.size_bytes, self.size_bytes)

Le(a, b) == FileRecordCmp(a, b) # "Greater"
Lt(a, b) == FileRecordCmp(a, b) = "Less"
Ge(a, b) == FileRecordCmp(a, b) # "Less"

\* ------------------------------------------- std::collections::BinaryHeap
\* The heap is its backing Vec; positions are 0-based as in the library.
At(d, i) == d[i + 1]
Put(d, i, x) == [d EXCEPT ![i + 1] = x]

RECURSIVE SiftUp(_, _, _, _)
SiftUp(d, start, pos, elt) ==
  IF pos > start
  THEN LET parent == (pos - 1) \div 2 IN
       IF Le(elt, At(d, parent))
       THEN Put(d, pos, elt)
       ELSE SiftUp(Put(d, pos, At(d, parent)), start, parent, elt)
  ELSE Put(d, pos, elt)

HeapPush(d, x) == SiftUp(Append(d, x), 0, Len(d), x)

\* sift_down_to_bottom(0): walk the hole to a leaf, then sift the element up
RECURSIVE HoleToBottom(_, _, _)
HoleToBottom(d, pos, end) ==
  LET child == 2 * pos + 1 IN
  IF end >= 2 /\ child <= end - 2
  THEN LET c == IF Le(At(d, child), At(d, child + 1)) THEN child + 1 ELSE child
       IN HoleToBottom(Put(d, pos, At(d, c)), c, end)
  ELSE IF child = end - 1
       THEN <<Put(d, pos, At(d, child)), child>>
       ELSE <<d, pos>>

SiftDownToBottom(d) ==
  LET elt == At(d, 0)
      hb == HoleToBottom(d, 0, Len(d))
  IN SiftUp(hb[1], 0, hb[2], elt)

\* BinaryHeap::pop on a non-empty heap: <<the heap left, the item returned>>
HeapPop(d) ==
  LET item == d[Len(d)]
      rest == SubSeq(d, 1, Len(d) - 1)
  IN IF rest = <<>>
     THEN <<rest, item>>
     ELSE <<SiftDownToBottom(Put(rest, 0, item)), At(rest, 0)>>

\* sift_down_range(0, end)
RECURSIVE SiftDownRange(_, _, _, _)
SiftDownRange(d, pos, end, elt) ==
  LET child == 2 * pos + 1 IN
  IF end >= 2 /\ child <= end - 2
  THEN LET c == IF Le(At(d, child), At(d, child + 1)) THEN child + 1 ELSE child
       IN IF Ge(elt, At(d, c))
          THEN Put(d, pos, elt)
          ELSE SiftDownRange(Put(d, pos, At(d, c)), c, end, elt)
  ELSE IF child = end - 1 /\ Lt(elt, At(d, child))
       THEN Put(Put(d, pos, At(d, child)), child, elt)
       ELSE Put(d, pos, elt)

\* BinaryHeap::into_sorted_vec: ascending in the records' Ord
RECURSIVE SortDown(_, _)
SortDown(d, end) ==
  IF end > 1
  THEN LET e == end - 1
           swapped == Put(Put(d, 0, At(d, e)), e, At(d, 0))
       IN SortDown(SiftDownRange(swapped, 0, e, At(swapped, 0)), e)
  ELSE d

IntoSortedVec(d) == SortDown(d, Len(d))

Reverse(s) == [i \in 1..Len(s) |-> s[Len(s) + 1 - i]]


\* --------------------------------------------------------------- scanner.rs
\* ScanStats { ..Default::default() }; root_path is the input, scan_duration_ms
\* is wall-clock time: neither is modelled.
DefaultStats ==
  [ total_files |-> 0, total_folders |-> 0, total_size_bytes |-> 0,
    extensions |-> <<>>, top_files |-> <<>> ]

DefaultExtensionStat == [count |-> 0, size |-> 0]

\* A plausible slip: the ledger keyed on the extension as written.
LedgerRecordCaseSensitive(extensions, ext, size) ==
  IF IsSome(ext)
  THEN LET ext_string == Unwrap(ext)
           old == IF ext_string \in DOMAIN extensions
                  THEN extensions[ext_string] ELSE DefaultExtensionStat
           new == [count |-> old.count + 1, size |-> old.size + size]
       IN [x \in DOMAIN extensions \cup {ext_string} |->
             IF x = ext_string THEN new ELSE extensions[x]]
  ELSE extensions

\* stats.extensions.entry(ext_string).or_default(); count += 1; size += size
\* (scanner.rs:44-49)
LedgerRecord(extensions, ext, size) ==
  IF IsSome(ext)
  THEN LET ext_string == to_lowercase(Unwrap(ext))
           old == IF ext_string \in DOMAIN extensions
                  THEN extensions[ext_string] ELSE DefaultExtensionStat
           new == [count |-> old.count + 1, size |-> old.size + size]
       IN [x \in DOMAIN extensions \cup {ext_string} |->
             IF x = ext_string THEN new ELSE extensions[x]]
  ELSE extensions

\* A plausible slip: the totals updated inside the extension branch.
CountFileInsideExtBranch(st, e) ==
  IF IsSome(e.ext)
  THEN [st EXCEPT !.total_files = @ + 1,
                  !.total_size_bytes = @ + e.len,
                  !.extensions = LedgerRecord(@, e.ext, e.len)]
  ELSE st

\* scanner.rs:39-49: the counters and the ledger for one regular file
CountFile(st, e) ==
  [st EXCEPT !.total_files = @ + 1,
             !.total_size_bytes = @ + e.len,
             !.extensions = LedgerRecord(@, e.ext, e.len)]

\* A plausible slip: the eviction threshold off by one.
EvictIfOverOffByOne(heap, limit) ==
  IF Len(heap) > limit + 1 THEN HeapPop(heap)[1] ELSE heap

\* scanner.rs:57-59
EvictIfOver(heap, limit) ==
  IF Len(heap) > limit THEN HeapPop(heap)[1] ELSE heap

\* scanner.rs:70-71
FinalizeTopFiles(heap) == Reverse(IntoSortedVec(heap))

ScanInit ==
  /\ first_scan = None
  /\ root_ok \in BOOLEAN
  /\ tree \in (IF root_ok THEN Trees ELSE {<<>>})
  /\ top_limit \in 0..MaxTopLimit
  /\ pending = DOMAIN tree
  /\ stats = DefaultStats
  /\ top_files_heap = <<>>
  /\ offered = None
  /\ pc = "root"
  /\ result = None

\* The first item of the walk is the root itself: Ok(directory) when it can be
\* opened, Err otherwise; an Err item is dropped (scanner.rs:36).
WalkRoot ==
  /\ pc = "root"
  /\ stats' = IF root_ok THEN [stats EXCEPT !.total_folders = @ + 1] ELSE stats
  /\ pc' = "walk"
  /\ UNCHANGED <<first_scan, root_ok, tree, top_limit, pending, top_files_heap, offered, result>>
  /\ UNCHANGED <<serverVars, govVars, other_scan, cli>>

\* A plausible slip: a failed metadata() read as an empty regular file.
VisitUnreadableCounted(p) ==
  /\ pc = "walk" /\ p \in pending
  /\ ~tree[p].entry_ok \/ ~tree[p].meta_ok
  /\ pending' = pending \ {p}
  /\ stats' = IF tree[p].entry_ok
              THEN [stats EXCEPT !.total_files = @ + 1] ELSE stats
  /\ UNCHANGED <<first_scan, root_ok, tree, top_limit, top_files_heap, offered, pc, result>>
  /\ UNCHANGED <<serverVars, govVars, other_scan, cli>>

\* An item that is Err, or whose metadata() is Err: nothing happens.
VisitUnreadable(p) ==
  /\ pc = "walk" /\ p \in pending
  /\ ~tree[p].entry_ok \/ ~tree[p].meta_ok
  /\ pending' = pending \ {p}
  /\ UNCHANGED <<first_scan, root_ok, tree, top_limit, stats, top_files_heap, offered, pc, result>>
  /\ UNCHANGED <<serverVars, govVars, other_scan, cli>>

\* meta.is_file(): count, ledger, push (scanner.rs:38-55)
VisitFile(p) ==
  /\ pc = "walk" /\ p \in pending
  /\ tree[p].entry_ok /\ tree[p].meta_ok /\ tree[p].kind = "file"
  /\ pending' = pending \ {p}
  /\ stats' = CountFile(stats, tree[p])
  /\ offered' = Some(FileRecord(p, tree[p].len))
  /\ top_files_heap' = HeapPush(top_files_heap, FileRecord(p, tree[p].len))
  /\ pc' = "evict"
  /\ UNCHANGED <<first_scan, root_ok, tree, top_limit, result>>
  /\ UNCHANGED <<serverVars, govVars, other_scan, cli>>

\* if top_files_heap.len() > self.top_limit { pop } (scanner.rs:57-59)
Evict ==
  /\ pc = "evict"
  /\ top_files_heap' = EvictIfOver(top_files_heap, top_limit)
  /\ offered' = None
  /\ pc' = "walk"
  /\ UNCHANGED <<first_scan, root_ok, tree, top_limit, pending, stats, result>>
  /\ UNCHANGED <<serverVars, govVars, other_scan, cli>>

\* meta.is_dir() (scanner.rs:60-62)
VisitDir(p) ==
  /\ pc = "walk" /\ p \in pending
  /\ tree[p].entry_ok /\ tree[p].meta_ok /\ tree[p].kind = "dir"
  /\ pending' = pending \ {p}
  /\ stats' = [stats EXCEPT !.total_folders = @ + 1]
  /\ UNCHANGED <<first_scan, root_ok, tree, top_limit, top_files_heap, offered, pc, result>>
  /\ UNCHANGED <<serverVars, govVars, other_scan, cli>>

\* A plausible slip: whatever is not a directory is counted as a file.
VisitOtherCounted(p) ==
  /\ pc = "walk" /\ p \in pending
  /\ tree[p].entry_ok /\ tree[p].meta_ok /\ tree[p].kind = "other"
  /\ pending' = pending \ {p}
  /\ stats' = [stats EXCEPT !.total_files = @ + 1]
  /\ UNCHANGED <<first_scan, root_ok, tree, top_limit, top_files_heap, offered, pc, result>>
  /\ UNCHANGED <<serverVars, govVars, other_scan, cli>>

\* neither file nor directory: no branch taken
VisitOther(p) ==
  /\ pc = "walk" /\ p \in pending
  /\ tree[p].entry_ok /\ tree[p].meta_ok /\ tree[p].kind = "other"
  /\ pending' = pending \ {p}
  /\ UNCHANGED <<first_scan, root_ok, tree, top_limit, stats, top_files_heap, offered, pc, result>>
  /\ UNCHANGED <<serverVars, govVars, other_scan, cli>>

\* the loop is over: sort, reverse, Ok(stats) (scanner.rs:67-73)
Finish ==
  /\ pc = "walk" /\ pending = {}
  /\ stats' = [stats EXCEPT !.top_files = FinalizeTopFiles(top_files_heap)]
  /\ top_files_heap' = <<>>
  /\ result' = Some("Ok")
  /\ pc' = "done"
  /\ UNCHANGED <<first_scan, root_ok, tree, top_limit, pending, offered>>
  /\ UNCHANGED <<serverVars, govVars, other_scan, cli>>

\* scan takes &self: the caller keeps the ScanStats returned and calls scan
\* again on the same Scanner, the tree unchanged (scanner.rs:24-33)
Rescan ==
  /\ pc = "done" /\ first_scan = None
  /\ first_scan' = Some(stats)
  /\ pending' = DOMAIN tree
  /\ stats' = DefaultStats
  /\ top_files_heap' = <<>>
  /\ offered' = None
  /\ pc' = "root"
  /\ result' = None
  /\ UNCHANGED <<root_ok, tree, top_limit>>
  /\ UNCHANGED <<serverVars, govVars, other_scan, cli>>

ScanNext ==
  \/ WalkRoot
  \/ \E p \in 1..MaxEntries : VisitUnreadable(p)
  \/ \E p \in 1..MaxEntries : VisitFile(p)
  \/ Evict
  \/ \E p \in 1..MaxEntries : VisitDir(p)
  \/ \E p \in 1..MaxEntries : VisitOther(p)
  \/ Finish


\* ------------------------------------------------- a second scan() in flight
\* scan(&self) only reads self.root and self.top_limit; its ScanStats and its
\* BinaryHeap are locals of the call (scanner.rs:24-35), so a second call has
\* a second set of them.
MaxPairEntries == 2

IdleScan ==
  [ pc |-> "idle", root_ok |-> TRUE, tree |-> <<>>, top_limit |-> 0, pending |-> {},
    stats |-> DefaultStats, top_files_heap |-> <<>>, result |-> None ]

OtherIdle == other_scan = IdleScan

\* scanner.rs:24-35: the call has set up its locals
StartedScan(rt_ok, tr, limit) ==
  [ pc |-> "root", root_ok |-> rt_ok, tree |-> tr, top_limit |-> limit,
    pending |-> DOMAIN tr, stats |-> DefaultStats, top_files_heap |-> <<>>,
    result |-> None ]

\* scanner.rs:36: the root itself
OtherWalkRoot ==
  /\ other_scan.pc = "root"
  /\ other_scan' =
       [other_scan EXCEPT !.pc = "walk",
                          !.stats.total_folders = IF other_scan.root_ok THEN @ + 1 ELSE @]
  /\ UNCHANGED <<scanVars, serverVars, govVars, cli>>

\* A plausible slip: the counters and the ledger kept in the Scanner, one set
\* for all its calls.
OtherVisitSharedStats(p) ==
  /\ other_scan.pc = "walk" /\ p \in other_scan.pending
  /\ LET e == other_scan.tree[p]
     IN IF e.entry_ok /\ e.meta_ok /\ e.kind = "file"
        THEN /\ other_scan' =
                  [other_scan EXCEPT !.pending = @ \ {p},
                                     !.top_files_heap = HeapPush(@, FileRecord(p, e.len)),
                                     !.pc = "evict"]
             /\ stats' = CountFile(stats, e)
        ELSE /\ other_scan' = [other_scan EXCEPT !.pending = @ \ {p}]
             /\ stats' = IF e.entry_ok /\ e.meta_ok /\ e.kind = "dir"
                         THEN [stats EXCEPT !.total_folders = @ + 1] ELSE stats
  /\ UNCHANGED <<first_scan, root_ok, tree, top_limit, pending, top_files_heap, offered,
                 pc, result>>
  /\ UNCHANGED <<serverVars, govVars, cli>>

\* scanner.rs:36-62: one item of the walk
OtherVisit(p) ==
  /\ other_scan.pc = "walk" /\ p \in other_scan.pending
  /\ LET e == other_scan.tree[p]
     IN other_scan' =
          IF e.entry_ok /\ e.meta_ok /\ e.kind = "file"
          THEN [other_scan EXCEPT !.pending = @ \ {p},
                                  !.stats = CountFile(@, e),
                                  !.top_files_heap = HeapPush(@, FileRecord(p, e.len)),
                                  !.pc = "evict"]
          ELSE IF e.entry_ok /\ e.meta_ok /\ e.kind = "dir"
               THEN [other_scan EXCEPT !.pending = @ \ {p},
                                       !.stats.total_folders = @ + 1]
               ELSE [other_scan EXCEPT !.pending = @ \ {p}]
  /\ UNCHANGED <<scanVars, serverVars, govVars, cli>>

\* scanner.rs:57-59
OtherEvict ==
  /\ other_scan.pc = "evict"
  /\ other_scan' =
       [other_scan EXCEPT !.top_files_heap = EvictIfOver(@, other_scan.top_limit),
                          !.pc = "walk"]
  /\ UNCHANGED <<scanVars, serverVars, govVars, cli>>

\* scanner.rs:67-73
OtherFinish ==
  /\ other_scan.pc = "walk" /\ other_scan.pending = {}
  /\ other_scan' =
       [other_scan EXCEPT !.stats.top_files = FinalizeTopFiles(other_scan.top_files_heap),
                          !.top_files_heap = <<>>,
                          !.result = Some("Ok"),
                          !.pc = "done"]
  /\ UNCHANGED <<scanVars, serverVars, govVars, cli>>

OtherNext ==
  \/ OtherWalkRoot
  \/ \E p \in 1..MaxPairEntries : OtherVisit(p)
  \/ OtherEvict
  \/ OtherFinish

\* the trees the two calls are started on: the same root, or another one
PairFiles == { FileEntry(1, Some(<<"t", "x", "t">>)), FileEntry(2, None) }
PairEntries == PairFiles \cup {DirEntry, OtherEntry, MetaErrEntry}
PairTrees ==
  { [i \in 1..MaxPairEntries |-> IF i = 1 THEN first ELSE rest] :
      first \in PairEntries, rest \in PairFiles }
OtherRootTree == [i \in 1..MaxPairEntries |-> FileEntry(2, Some(<<"b", "i", "n">>))]

TwoScansInit ==
  /\ first_scan = None
  /\ root_ok = TRUE
  /\ tree \in PairTrees
  /\ top_limit = 1
  /\ pending = DOMAIN tree
  /\ stats = DefaultStats
  /\ top_files_heap = <<>>
  /\ offered = None
  /\ pc = "root"
  /\ result = None
  /\ \E tr \in {tree, OtherRootTree}, limit \in 0..1 :
       other_scan = StartedScan(TRUE, tr, limit)

\* the steps of the two calls in any interleaving
TwoScansNext == ScanNext \/ OtherNext

\* ================================================================= SERVER ==
\* ------------------------------------------------ 64-bit integers, scaled down
RECURSIVE Pow2(_)
Pow2(n) == IF n = 0 THEN 1 ELSE 2 * Pow2(n - 1)

UMax == Pow2(WordBits) - 1          \* u64::MAX
IMax == Pow2(WordBits - 1) - 1      \* i64::MAX
IMin == -Pow2(WordBits - 1)         \* i64::MIN

InI64(x) == IMin <= x /\ x <= IMax
WrapI64(x) == ((x - IMin) % Pow2(WordBits)) + IMin

\* `u as i64`: the same bits, never a failure
AsI64(u) == WrapI64(u)

\* a - b, -a and a.abs() on i64: the wrapped value, and whether the exact one
\* is out of range (a panic with overflow checks on, a wrap with them off)
SubI64(a, b) == [val |-> WrapI64(a - b), overflow |-> ~InI64(a - b)]
NegI64(a) == [val |-> WrapI64(-a), overflow |-> ~InI64(-a)]
AbsI64(a) == IF a < 0 THEN NegI64(a) ELSE [val |-> a, overflow |-> FALSE]

\* f64 values as fractions in lowest terms with a positive denominator;
\* denominator 0 stands for the non-finite results of a division by zero
RECURSIVE Gcd(_, _)
Gcd(a, b) == IF b = 0 THEN a ELSE Gcd(b, a % b)
AbsInt(x) == IF x < 0 THEN -x ELSE x
Sign(x) == IF x < 0 THEN -1 ELSE IF x = 0 THEN 0 ELSE 1

F64Zero == [num |-> 0, den |-> 1]
F64Div(n, d) ==
  IF d = 0 THEN [num |-> Sign(n), den |-> 0]
  ELSE LET g == Gcd(AbsInt(n), AbsInt(d))
       IN [num |-> (Sign(d) * n) \div g, den |-> AbsInt(d) \div g]

\* -------------------------------------------------------- server/src/main.rs
AgentSnapshot(a, t, h, size, files, exts) ==
  [ agent_id |-> a, timestamp |-> t, hostname |-> h,
    total_size_bytes |-> size, file_count |-> files, top_extensions |-> exts ]

ExtensionDelta(ext, size, count) ==
  [extension |-> ext, size_delta |-> size, count_delta |-> count]

\* Result<Option<AgentSnapshot>, _>
Err == [ok |-> FALSE, snap |-> None]
Ok(o) == [ok |-> TRUE, snap |-> o]
Resolved(r) == r.ok /\ IsSome(r.snap)

\* A plausible slip: a snapshot taken exactly at the requested time is left out.
AtOrBeforeStrict(store, agent_id, ts) ==
  {s \in BagToSet(store) : s.agent_id = agent_id /\ s.timestamp < ts}

\* A plausible slip: the WHERE clause without its agent_id condition.
AtOrBeforeAnyAgent(store, agent_id, ts) ==
  {s \in BagToSet(store) : s.timestamp <= ts}

\* SELECT ... WHERE agent_id = $agent_id AND timestamp <= $ts
\* ORDER BY timestamp DESC LIMIT 1, then response.take(0) (main.rs:168-191):
\* the store may fail; among equal newest timestamps any record may come first
AtOrBefore(store, agent_id, ts) ==
  {s \in BagToSet(store) : s.agent_id = agent_id /\ s.timestamp <= ts}

\* A plausible slip: ORDER BY timestamp ASC, so that LIMIT 1 keeps the oldest.
Oldest(S) == {s \in S : \A o \in S : s.timestamp <= o.timestamp}

Newest(S) == {s \in S : \A o \in S : o.timestamp <= s.timestamp}

LookupResults(store, agent_id, ts) ==
  LET found == AtOrBefore(store, agent_id, ts)
  IN {Err} \cup (IF found = {} THEN {Ok(None)} ELSE {Ok(Some(s)) : s \in Newest(found)})

\* main.rs:202-205: later tuples of one extension overwrite earlier ones
RECURSIVE StartExtMap(_)
StartExtMap(exts) ==
  IF exts = <<>> THEN <<>>
  ELSE LET front == StartExtMap(SubSeq(exts, 1, Len(exts) - 1))
           t == exts[Len(exts)]
       IN [x \in DOMAIN front \cup {t[1]} |->
             IF x = t[1] THEN <<t[2], t[3]>> ELSE front[x]]

MapRemove(m, k) == [x \in (DOMAIN m) \ {k} |-> m[x]]

\* main.rs:211-227: <<deltas pushed, overflow seen, start_ext_map left>>
RECURSIVE EndDeltas(_, _)
EndDeltas(exts, start_ext_map) ==
  IF exts = <<>> THEN [deltas |-> <<>>, overflow |-> FALSE, map |-> start_ext_map]
  ELSE LET before == EndDeltas(SubSeq(exts, 1, Len(exts) - 1), start_ext_map)
           t == exts[Len(exts)]
       IN IF t[1] \in DOMAIN before.map
          THEN LET size == SubI64(AsI64(t[2]), AsI64(before.map[t[1]][1]))
                   count == SubI64(AsI64(t[3]), AsI64(before.map[t[1]][2]))
               IN [ deltas |-> Append(before.deltas,
                                      ExtensionDelta(t[1], size.val, count.val)),
                    overflow |-> before.overflow \/ size.overflow \/ count.overflow,
                    map |-> MapRemove(before.map, t[1]) ]
          ELSE [ deltas |-> Append(before.deltas,
                                   ExtensionDelta(t[1], AsI64(t[2]), AsI64(t[3]))),
                 overflow |-> before.overflow,
                 map |-> before.map ]

\* A plausible slip: a disappeared extension reported with its start values.
GoneDeltasNotNegated(m, order) ==
  [i \in DOMAIN order |->
     ExtensionDelta(order[i], AsI64(m[order[i]][1]), AsI64(m[order[i]][2]))]

\* main.rs:230-236, the map iterated in the order `order` of its keys
GoneDeltas(m, order) ==
  [i \in DOMAIN order |->
     ExtensionDelta(order[i], NegI64(AsI64(m[order[i]][1])).val,
                              NegI64(AsI64(m[order[i]][2])).val)]

GoneOverflow(m) ==
  \E k \in DOMAIN m : NegI64(AsI64(m[k][1])).overflow \/ NegI64(AsI64(m[k][2])).overflow

\* main.rs:239: a stable sort, larger |size_delta| first
AbsKey(d) == AbsI64(d.size_delta).val

RECURSIVE InsertByAbs(_, _)
InsertByAbs(sorted, d) ==
  IF sorted = <<>> THEN <<d>>
  ELSE IF AbsKey(sorted[Len(sorted)]) >= AbsKey(d)
       THEN Append(sorted, d)
       ELSE Append(InsertByAbs(SubSeq(sorted, 1, Len(sorted) - 1), d),
                   sorted[Len(sorted)])

RECURSIVE SortByAbs(_)
SortByAbs(deltas) ==
  IF deltas = <<>> THEN <<>>
  ELSE InsertByAbs(SortByAbs(SubSeq(deltas, 1, Len(deltas) - 1)), deltas[Len(deltas)])

SortOverflow(deltas) ==
  Len(deltas) >= 2 /\ \E i \in DOMAIN deltas : AbsI64(deltas[i].size_delta).overflow

\* A plausible slip: the guard lets a zero duration through to the division.
VelocityOfGuardGe(size_diff, duration) ==
  IF duration >= 0 THEN F64Div(size_diff, duration) ELSE F64Zero

\* main.rs:241-245
VelocityOf(size_diff, duration) ==
  IF duration > 0 THEN F64Div(size_diff, duration) ELSE F64Zero

\* main.rs:274-283
ZeroReport(agent_id) ==
  [ agent_id |-> agent_id, t_start |-> 0, t_end |-> 0, duration_seconds |-> 0,
    growth_bytes |-> 0, growth_files |-> 0, bytes_per_second |-> F64Zero,
    extension_deltas |-> <<>> ]

\* the keys left in start_ext_map when the loop over the end snapshot is done
LeftoverKeys(start_res, end_res) ==
  IF Resolved(start_res) /\ Resolved(end_res)
  THEN DOMAIN EndDeltas(Unwrap(end_res.snap).top_extensions,
                        StartExtMap(Unwrap(start_res.snap).top_extensions)).map
  ELSE {}

Perms(S) == {f \in [1..Cardinality(S) -> S] : \A i, j \in DOMAIN f : i # j => f[i] # f[j]}

\* A plausible slip: the difference taken the wrong way round.
GrowthSwapped(end_value, start_value) == SubI64(AsI64(start_value), AsI64(end_value))

\* main.rs:196-198: (end as i64) - (start as i64)
Growth(end_value, start_value) == SubI64(AsI64(end_value), AsI64(start_value))

\* main.rs:195-265: the report of two snapshots, and whether an operation
\* overflowed on the way
MatchedReport(agent_id, start_snap, end_snap, order) ==
  LET size_diff == Growth(end_snap.total_size_bytes, start_snap.total_size_bytes)
      file_diff == Growth(end_snap.file_count, start_snap.file_count)
      duration == SubI64(end_snap.timestamp, start_snap.timestamp)
      matched == EndDeltas(end_snap.top_extensions, StartExtMap(start_snap.top_extensions))
      deltas == matched.deltas \o GoneDeltas(matched.map, order)
  IN [ report |->
         [ agent_id |-> agent_id,
           t_start |-> start_snap.timestamp,
           t_end |-> end_snap.timestamp,
           duration_seconds |-> duration.val,
           growth_bytes |-> size_diff.val,
           growth_files |-> file_diff.val,
           bytes_per_second |-> VelocityOf(size_diff.val, duration.val),
           extension_deltas |-> SortByAbs(deltas) ],
       overflow |-> \/ size_diff.overflow \/ file_diff.overflow \/ duration.overflow
                    \/ matched.overflow \/ GoneOverflow(matched.map)
                    \/ SortOverflow(deltas) ]

\* A plausible slip: the fallback taken only when both lookups come back empty.
VelocityMatchBothMissing(agent_id, start_res, end_res, order) ==
  IF Resolved(start_res) /\ Resolved(end_res)
  THEN MatchedReport(agent_id, Unwrap(start_res.snap), Unwrap(end_res.snap), order)
  ELSE IF Resolved(end_res)
       THEN MatchedReport(agent_id, Unwrap(end_res.snap), Unwrap(end_res.snap), <<>>)
       ELSE [report |-> ZeroReport(agent_id), overflow |-> FALSE]

\* main.rs:194-285: match (start_snap_result, end_snap_result)
VelocityMatch(agent_id, start_res, end_res, order) ==
  IF Resolved(start_res) /\ Resolved(end_res)
  THEN MatchedReport(agent_id, Unwrap(start_res.snap), Unwrap(end_res.snap), order)
  ELSE [report |-> ZeroReport(agent_id), overflow |-> FALSE]

\* ---------------------------------------------------------------- handlers
Agents == {"a1", "a2"}

\* Snapshots come in from every agent; agents being interchangeable, the
\* queries are about the first one.
QueriedAgents == {"a1"}

IdleQuery ==
  [ pc |-> "idle", agent_id |-> "", range |-> [start |-> 0, end |-> 0],
    start_snap_result |-> Err, end_snap_result |-> Err ]

ServerInit ==
  /\ snapshots = EmptyBag
  /\ vq = IdleQuery
  /\ vel_resp = None
  /\ ingest_resp = None
  /\ hist_resp = None

\* the snapshots agents send to /api/v1/ingest
Payloads ==
  { AgentSnapshot(a, t, "h1", size, 10, << <<"log", 100, 1>> >>) :
      a \in Agents, t \in 1..MaxTime, size \in {1000, 1500} }

\* A plausible slip: a record keyed on (agent_id, timestamp), so that a second
\* ingest of the same key replaces the first.
StoreCreateUpsert(store, payload) ==
  LET kept == {s \in BagToSet(store) :
                 ~(s.agent_id = payload.agent_id /\ s.timestamp = payload.timestamp)}
  IN [s \in kept |-> store[s]] (+) SetToBag({payload})

\* state.db.create("snapshots").content(&payload) when it succeeds: a new
\* record with an id of its own (main.rs:99-100)
StoreCreate(store, payload) == store (+) SetToBag({payload})

\* A plausible slip: the result of the write is not looked at.
IngestAckIgnoringResult(created_ok) == "Snapshot stored"

\* match created (main.rs:102-117); the error text stands for format!("Error: {}", e)
IngestAck(created_ok) == IF created_ok THEN "Snapshot stored" ELSE "Error"

\* ingest_snapshot (main.rs:94-118): db.create succeeds and the record is
\* added, or fails and nothing is stored
IngestSnapshot(payload) ==
  /\ BagCardinality(snapshots) < MaxSnapshots
  /\ \E created_ok \in BOOLEAN :
       /\ snapshots' = IF created_ok THEN StoreCreate(snapshots, payload) ELSE snapshots
       /\ ingest_resp' = Some(IngestAck(created_ok))
  /\ vel_resp' = None /\ hist_resp' = None
  /\ UNCHANGED <<vq, scanVars, govVars, other_scan, cli>>

\* ORDER BY timestamp DESC over the records of one agent
OfAgent(store, agent_id) ==
  LET S == {s \in BagToSet(store) : s.agent_id = agent_id}
  IN [s \in S |-> store[s]]

\* A plausible slip: ORDER BY timestamp ASC.
RECURSIVE AscTimestamps(_)
AscTimestamps(B) ==
  IF BagToSet(B) = {} THEN <<>>
  ELSE LET m == CHOOSE s \in BagToSet(B) : \A o \in BagToSet(B) : s.timestamp <= o.timestamp
       IN <<m.timestamp>> \o AscTimestamps(B (-) SetToBag({m}))

RECURSIVE DescTimestamps(_)
DescTimestamps(B) ==
  IF BagToSet(B) = {} THEN <<>>
  ELSE LET m == CHOOSE s \in BagToSet(B) : \A o \in BagToSet(B) : o.timestamp <= s.timestamp
       IN <<m.timestamp>> \o DescTimestamps(B (-) SetToBag({m}))

\* query_result: Result<Vec<i64>, _> (main.rs:130-135): the store fails, or
\* answers with the agent's timestamps, newest first
HistoryResults(store, agent_id) ==
  { [ok |-> FALSE, timestamps |-> <<>>],
    [ok |-> TRUE, timestamps |-> DescTimestamps(OfAgent(store, agent_id))] }

\* match query_result (main.rs:137-150)
HistoryBody(query_result) ==
  IF query_result.ok THEN query_result.timestamps ELSE <<>>

\* get_agent_history (main.rs:126-151)
GetAgentHistory(agent_id) ==
  /\ \E r \in HistoryResults(snapshots, agent_id) :
       hist_resp' = Some([agent_id |-> agent_id, query_result |-> r, sent |-> HistoryBody(r)])
  /\ vel_resp' = None /\ ingest_resp' = None
  /\ UNCHANGED <<snapshots, vq, scanVars, govVars, other_scan, cli>>

\* get_velocity up to its first await (main.rs:168-178)
VelStartLookup(agent_id, start, end) ==
  /\ vq.pc = "idle"
  /\ \E r \in LookupResults(snapshots, agent_id, start) :
       vq' = [ pc |-> "end", agent_id |-> agent_id,
               range |-> [start |-> start, end |-> end],
               start_snap_result |-> r, end_snap_result |-> Err ]
  /\ vel_resp' = None
  /\ UNCHANGED <<snapshots, ingest_resp, hist_resp, scanVars, govVars, other_scan, cli>>

\* get_velocity's second query (main.rs:181-191)
VelEndLookup ==
  /\ vq.pc = "end"
  /\ \E r \in LookupResults(snapshots, vq.agent_id, vq.range.end) :
       vq' = [vq EXCEPT !.pc = "match", !.end_snap_result = r]
  /\ UNCHANGED <<snapshots, vel_resp, ingest_resp, hist_resp, scanVars, govVars, other_scan, cli>>

\* get_velocity's match (main.rs:194-285). An overflowing operation panics
\* when the build checks overflow and wraps when it does not.
VelMatch ==
  /\ vq.pc = "match"
  /\ \E order \in Perms(LeftoverKeys(vq.start_snap_result, vq.end_snap_result)) :
       LET out == VelocityMatch(vq.agent_id, vq.start_snap_result,
                                vq.end_snap_result, order)
       IN \/ /\ vel_resp' = Some(out.report)
             /\ vq' = [vq EXCEPT !.pc = "done"]
          \/ /\ out.overflow
             /\ vel_resp' = None
             /\ vq' = [vq EXCEPT !.pc = "panicked"]
  /\ ingest_resp' = None /\ hist_resp' = None
  /\ UNCHANGED <<snapshots, scanVars, govVars, other_scan, cli>>

\* the call is over, answered or panicked: its locals are dropped and the
\* next call may come in
VelReturn ==
  /\ vq.pc \in {"done", "panicked"}
  /\ vq' = IdleQuery
  /\ UNCHANGED <<snapshots, vel_resp, ingest_resp, hist_resp, scanVars, govVars, other_scan, cli>>

ServerNext ==
  \/ \E payload \in Payloads : IngestSnapshot(payload)
  \/ \E a \in QueriedAgents : GetAgentHistory(a)
  \/ \E a \in QueriedAgents, start \in 0..MaxTime, end \in 0..MaxTime :
       VelStartLookup(a, start, end)
  \/ VelEndLookup
  \/ VelMatch
  \/ VelReturn

\* no scan is running
ScanIdle ==
  /\ first_scan = None
  /\ root_ok = TRUE /\ tree = <<>> /\ top_limit = 0 /\ pending = {}
  /\ stats = DefaultStats /\ top_files_heap = <<>> /\ offered = None
  /\ pc = "idle" /\ result = None

\* ---------------------------------------------- the match on sampled inputs
I64Samples == {IMin, 100, 200, IMax}
SizeSamples == {1000, 1500, IMax, IMax + 1, UMax}
CountSamples == {10, 12, IMax + 1}
ExtListSamples == { <<>>, << <<"log", 100, 1>> >> }

SnapshotSamples ==
  { AgentSnapshot("a1", t, "h1", size, files, exts) :
      t \in I64Samples, size \in SizeSamples, files \in CountSamples,
      exts \in ExtListSamples }

ResultSamples == {Err, Ok(None)} \cup {Ok(Some(s)) : s \in SnapshotSamples}

\* a get_velocity call whose two lookups have returned; the range asked for is
\* the resolved timestamps themselves
MatchInit ==
  \E start_res \in ResultSamples, end_res \in ResultSamples :
    /\ vq = [ pc |-> "match", agent_id |-> "a1",
              range |-> [ start |-> IF Resolved(start_res)
                                    THEN Unwrap(start_res.snap).timestamp ELSE IMin,
                          end |-> IF Resolved(end_res)
                                  THEN Unwrap(end_res.snap).timestamp ELSE IMin ],
              start_snap_result |-> start_res, end_snap_result |-> end_res ]
    /\ snapshots = (IF Resolved(start_res) THEN SetToBag({Unwrap(start_res.snap)}) ELSE EmptyBag)
                     (+) (IF Resolved(end_res) THEN SetToBag({Unwrap(end_res.snap)}) ELSE EmptyBag)
    /\ vel_resp = None
    /\ ingest_resp = None
    /\ hist_resp = None

\* ------------------------------------- the match on sampled extension lists
\* (extension, total size, file count) tuples: sizes that shrink, grow and
\* tie, and one of 2^63 bytes, which `as i64` turns into i64::MIN
ExtTupleSamples ==
  { <<"log", 100, 1>>, <<"log", 50, 1>>, <<"tmp", 20, 2>>, <<"tmp", 50, 1>>,
    <<"bin", 70, 3>>, <<"bin", IMax + 1, 1>> }

\* Vec<(String, u64, u64)> as the ingestion boundary takes it: any tuples in
\* any order, an extension possibly more than once
ExtLists == UNION { [1..n -> ExtTupleSamples] : n \in 0..MaxExts }

\* a get_velocity call whose two lookups have resolved
ReconcileInit ==
  \E start_exts \in ExtLists, end_exts \in ExtLists :
    LET start_snap == AgentSnapshot("a1", 100, "h1", 1000, 10, start_exts)
        end_snap == AgentSnapshot("a1", 200, "h1", 1500, 12, end_exts)
    IN /\ vq = [ pc |-> "match", agent_id |-> "a1",
                 range |-> [start |-> 100, end |-> 200],
                 start_snap_result |-> Ok(Some(start_snap)),
                 end_snap_result |-> Ok(Some(end_snap)) ]
       /\ snapshots = SetToBag({start_snap, end_snap})
       /\ vel_resp = None
       /\ ingest_resp = None
       /\ hist_resp = None

\* ============================================================= GOVERNANCE ==
\* ------------------------------------------------ cli/src/governance/engine.rs
SecsPerDay == 86400

\* enum Action; Archive's target_path is only printed
Actions == {"Report", "Delete", "Archive"}

Rule(extension, min_size_bytes, min_age_days) ==
  [ extension |-> extension, min_size_bytes |-> min_size_bytes,
    min_age_days |-> min_age_days ]

Policy(name, rule, action) == [name |-> name, rule |-> rule, action |-> action]

\* What evaluate reads of a file: path.extension(), metadata.len(), whether
\* metadata.modified() is Ok, and modified.elapsed(): Some(whole seconds), or
\* None when it is Err, the modification time being later than now.
FileMeta(ext, len, modified_ok, elapsed) ==
  [ext |-> ext, len |-> len, modified_ok |-> modified_ok, elapsed |-> elapsed]

\* engine.rs:28-36
ExtensionPasses(rule, file) ==
  IF IsSome(rule.extension)
  THEN IF IsSome(file.ext)
       THEN to_lowercase(Unwrap(file.ext)) = Unwrap(rule.extension)
       ELSE FALSE
  ELSE TRUE

\* engine.rs:39-43
SizePasses(rule, file) ==
  IF IsSome(rule.min_size_bytes)
  THEN ~(file.len < Unwrap(rule.min_size_bytes))
  ELSE TRUE

\* engine.rs:46-54: only a known age below the threshold rejects
AgePasses(rule, file) ==
  IF IsSome(rule.min_age_days) /\ file.modified_ok /\ IsSome(file.elapsed)
  THEN ~(Unwrap(file.elapsed) < Unwrap(rule.min_age_days) * SecsPerDay)
  ELSE TRUE

\* Policy::evaluate (engine.rs:26-57): the first failing check returns false
PolicyEvaluate(policy, file) ==
  IF ~ExtensionPasses(policy.rule, file) THEN FALSE
  ELSE IF ~SizePasses(policy.rule, file) THEN FALSE
  ELSE IF ~AgePasses(policy.rule, file) THEN FALSE
  ELSE TRUE

\* std::fs::remove_file: the file is gone, or the call fails (no such file,
\* no permission) and nothing changes
RemoveFile(files, path) ==
  {files} \cup (IF path \in DOMAIN files
                THEN {[q \in (DOMAIN files) \ {path} |-> files[q]]}
                ELSE {})

\* A plausible slip: the dry_run flag is not looked at.
PolicyExecuteIgnoringDryRun(policy, files, path, dry_run) ==
  IF policy.action = "Delete" THEN RemoveFile(files, path) ELSE {files}

\* Policy::execute (engine.rs:59-79): the filesystems it can leave behind
PolicyExecute(policy, files, path, dry_run) ==
  IF dry_run THEN {files}
  ELSE CASE policy.action = "Report" -> {files}
         [] policy.action = "Delete" -> RemoveFile(files, path)
         [] policy.action = "Archive" -> {files}

\* the files and policies the engine is tried on
FileSamples ==
  { FileMeta(Some(<<"t", "x", "t">>), 1, TRUE, Some(SecsPerDay)),
    FileMeta(Some(<<"T", "X", "T">>), 1, TRUE, Some(SecsPerDay)),
    FileMeta(Some(<<"b", "i", "n">>), 1, TRUE, Some(SecsPerDay)),
    FileMeta(None, 1, TRUE, Some(SecsPerDay)),
    FileMeta(Some(<<"t", "x", "t">>), 0, TRUE, Some(SecsPerDay)),
    FileMeta(Some(<<"t", "x", "t">>), 1, TRUE, Some(SecsPerDay - 1)),
    FileMeta(Some(<<"t", "x", "t">>), 1, TRUE, None),
    FileMeta(Some(<<"t", "x", "t">>), 1, FALSE, None) }

RuleSamples ==
  { Rule(None, None, None),
    Rule(Some(<<"t", "x", "t">>), None, None),
    Rule(Some(<<"T", "X", "T">>), None, None),
    Rule(None, Some(1), None),
    Rule(None, None, Some(1)),
    Rule(Some(<<"t", "x", "t">>), Some(1), Some(1)) }

PolicySamples ==
  { Policy("p", r, "Report") : r \in RuleSamples }
    \cup { Policy("p", Rule(None, None, None), a) : a \in Actions }

GovIdle == fs = <<>> /\ gov = None

GovInit ==
  /\ fs \in [1..MaxFiles -> FileSamples]
  /\ gov = None

\* policy.evaluate(&path, &metadata) on a file whose metadata was read
Evaluate(policy, path) ==
  /\ path \in DOMAIN fs
  /\ gov' = Some([ op |-> "evaluate", policy |-> policy, path |-> path,
                   dry_run |-> FALSE,
                   returned |-> PolicyEvaluate(policy, fs[path]) ])
  /\ UNCHANGED <<fs, scanVars, serverVars, other_scan, cli>>

\* policy.execute(&path, dry_run)
Execute(policy, path, dry_run) ==
  /\ fs' \in PolicyExecute(policy, fs, path, dry_run)
  /\ gov' = Some([ op |-> "execute", policy |-> policy, path |-> path,
                   dry_run |-> dry_run, returned |-> TRUE ])
  /\ UNCHANGED <<scanVars, serverVars, other_scan, cli>>

GovNext ==
  \/ \E policy \in PolicySamples, path \in 1..MaxFiles : Evaluate(policy, path)
  \/ \E policy \in PolicySamples, path \in 1..MaxFiles, dry_run \in BOOLEAN :
       Execute(policy, path, dry_run)

\* ------------------------------- a query with ingests of its agent in between
\* timestamps from one end of i64 to the other
WideTimes == {IMin, 0, 1, IMax}

WidePayloads ==
  { AgentSnapshot(a, t, "h1", 1000, 10, <<>>) : a \in QueriedAgents, t \in WideTimes }

\* the two handlers run on the same store; every await of get_velocity is a
\* point where an ingest may come in between
InterleaveNext ==
  \/ \E payload \in WidePayloads : IngestSnapshot(payload)
  \/ \E a \in QueriedAgents, start \in WideTimes, end \in WideTimes :
       start <= end /\ VelStartLookup(a, start, end)
  \/ VelEndLookup
  \/ VelMatch
  \/ VelReturn

\* ==================================================================== CLI ==
\* ------------------------------------------------------------ cli/src/main.rs
\* main: fetch the server's policies, walk the tree with a governance check on
\* every file, print, upload the snapshot. The --analyze/--semantic pass over
\* top_files only reads files and is not modelled.
FetchedMinAgeDays == 90
UploadTopN == 10

CliIdle == cli = <<>>

LogExt == <<"l", "o", "g">>

\* one object of the JSON array GET /api/v1/policies answers with: its "name"
\* when it is a string, and its "action"
ServedPolicy(name, action) == [name |-> name, action |-> action]

\* the server's get_policies sends one policy named "Cleanup Old Logs" with
\* action "DELETE" (server/src/main.rs:291-302); other servers may send others
ServedActions == {"DELETE", "REPORT", "ARCHIVE"}

ServedSamples ==
  { << ServedPolicy(Some("Cleanup Old Logs"), a) >> : a \in ServedActions }
    \cup { << ServedPolicy(None, "DELETE"), ServedPolicy(Some("p2"), "DELETE") >> }

\* A plausible slip: the action taken from what the server declares.
FetchPoliciesKeepAction(served) ==
  LET named == SelectSeq(served, LAMBDA p : IsSome(p.name))
  IN [ i \in DOMAIN named |->
         Policy(Unwrap(named[i].name),
                Rule(Some(LogExt), None, Some(FetchedMinAgeDays)),
                CASE named[i].action = "DELETE" -> "Delete"
                  [] named[i].action = "ARCHIVE" -> "Archive"
                  [] OTHER -> "Report") ]

\* fetch_policies when the response parses (main.rs:112-127): objects without
\* a string "name" are dropped, the rule and the action are fixed
FetchPolicies(served) ==
  LET named == SelectSeq(served, LAMBDA p : IsSome(p.name))
  IN [ i \in DOMAIN named |->
         Policy(Unwrap(named[i].name),
                Rule(Some(LogExt), None, Some(FetchedMinAgeDays)),
                "Report") ]

\* main.rs:243-249 for one file: every policy that evaluates to true on the
\* metadata read at the top of the iteration is executed; the filesystems
\* this can leave behind
RECURSIVE GovernFile(_, _, _, _, _, _)
GovernFile(policies, i, files, path, meta, dry_run) ==
  IF i > Len(policies) THEN {files}
  ELSE IF PolicyEvaluate(policies[i], meta)
       THEN UNION { GovernFile(policies, i + 1, after, path, meta, dry_run) :
                      after \in PolicyExecute(policies[i], files, path, dry_run) }
       ELSE GovernFile(policies, i + 1, files, path, meta, dry_run)

\* the last Policy call of that check
LastPolicyCall(policies, path, meta, dry_run) ==
  LET last == policies[Len(policies)]
  IN IF PolicyEvaluate(last, meta)
     THEN [ op |-> "execute", policy |-> last, path |-> path,
            dry_run |-> dry_run, returned |-> TRUE ]
     ELSE [ op |-> "evaluate", policy |-> last, path |-> path,
            dry_run |-> FALSE, returned |-> FALSE ]

\* main.rs:147: a stable sort, larger size first
RECURSIVE InsertBySize(_, _)
InsertBySize(sorted, x) ==
  IF sorted = <<>> THEN <<x>>
  ELSE IF sorted[Len(sorted)][2].size >= x[2].size
       THEN Append(sorted, x)
       ELSE Append(InsertBySize(SubSeq(sorted, 1, Len(sorted) - 1), x),
                   sorted[Len(sorted)])

RECURSIVE SortBySize(_)
SortBySize(pairs) ==
  IF pairs = <<>> THEN <<>>
  ELSE InsertBySize(SortBySize(SubSeq(pairs, 1, Len(pairs) - 1)), pairs[Len(pairs)])

\* main.rs:146-152: the ledger iterated in the order `order` of its keys,
\* sorted, the first ten kept, each as the pair (extension, size)
TopExtensions(extensions, order) ==
  LET sorted_exts == SortBySize([i \in DOMAIN order |-> <<order[i], extensions[order[i]]>>])
      kept == SubSeq(sorted_exts, 1,
                     IF Len(sorted_exts) < UploadTopN THEN Len(sorted_exts) ELSE UploadTopN)
  IN [i \in DOMAIN kept |-> <<kept[i][1], kept[i][2].size>>]

\* main.rs:154-161: the JSON object posted; the clock is read twice
UploadBody(st, order, now_id, now_ts) ==
  [ agent_id |-> <<"agent_", now_id>>,
    timestamp |-> now_ts,
    hostname |-> "h1",
    total_size_bytes |-> st.total_size_bytes,
    file_count |-> st.total_files,
    top_extensions |-> TopExtensions(st.extensions, order) ]

\* Json<AgentSnapshot> (server/src/main.rs:32-41, 96): the body deserializes
\* only if every element of top_extensions is an array of exactly three
\* values; otherwise the request is rejected before the handler runs
JsonExtract(body) ==
  IF \A i \in DOMAIN body.top_extensions : Len(body.top_extensions[i]) = 3
  THEN Some(AgentSnapshot(body.agent_id, body.timestamp, body.hostname,
                          body.total_size_bytes, body.file_count, body.top_extensions))
  ELSE None

\* the files the CLI is run on; ages around the 90 days of the fetched rule
CliFileSamples ==
  { FileMeta(Some(LogExt), 1, TRUE, Some(FetchedMinAgeDays * SecsPerDay)),
    FileMeta(Some(LogExt), 2, TRUE, Some(FetchedMinAgeDays * SecsPerDay - 1)),
    FileMeta(Some(<<"t", "x", "t">>), 2, TRUE, Some(FetchedMinAgeDays * SecsPerDay)),
    FileMeta(None, 1, TRUE, Some(FetchedMinAgeDays * SecsPerDay)) }

CliInit ==
  /\ fs \in [1..MaxFiles -> CliFileSamples]
  /\ gov = None
  /\ \E server \in BOOLEAN, enforce \in BOOLEAN, served \in ServedSamples :
       cli = [ pc |-> "fetch", server |-> server, enforce |-> enforce, limit |-> 1,
               served |-> served, policies |-> <<>>, pending |-> DOMAIN fs,
               stats |-> DefaultStats, top_files_heap |-> <<>>, upload |-> None ]

\* main.rs:190-203: with --server the policies are fetched; a failed request
\* or an unparsable answer gives none
CliFetch ==
  /\ cli # <<>> /\ cli.pc = "fetch"
  /\ \E policies \in (IF cli.server THEN {FetchPolicies(cli.served), <<>>} ELSE {<<>>}) :
       cli' = [cli EXCEPT !.policies = policies, !.pc = "root"]
  /\ UNCHANGED <<scanVars, serverVars, govVars, other_scan>>

\* main.rs:213: the first item of the walk is the root directory
CliWalkRoot ==
  /\ cli # <<>> /\ cli.pc = "root"
  /\ cli' = [cli EXCEPT !.stats.total_folders = @ + 1, !.pc = "walk"]
  /\ UNCHANGED <<scanVars, serverVars, govVars, other_scan>>

\* main.rs:214-250: one file of the walk: count, ledger, push, pop, and the
\* governance check with dry_run = !args.enforce
CliVisit(p) ==
  /\ cli # <<>> /\ cli.pc = "walk" /\ p \in cli.pending /\ p \in DOMAIN fs
  /\ cli' = [cli EXCEPT
               !.pending = @ \ {p},
               !.stats = CountFile(@, fs[p]),
               !.top_files_heap =
                  EvictIfOver(HeapPush(@, FileRecord(p, fs[p].len)), cli.limit)]
  /\ fs' \in GovernFile(cli.policies, 1, fs, p, fs[p], ~cli.enforce)
  /\ gov' = IF cli.policies # <<>>
            THEN Some(LastPolicyCall(cli.policies, p, fs[p], ~cli.enforce))
            ELSE gov
  /\ UNCHANGED <<scanVars, serverVars, other_scan>>

\* main.rs:256-321: the walk is over
CliFinish ==
  /\ cli # <<>> /\ cli.pc = "walk" /\ cli.pending = {}
  /\ cli' = [cli EXCEPT !.stats.top_files = FinalizeTopFiles(cli.top_files_heap),
                        !.top_files_heap = <<>>,
                        !.pc = IF cli.server THEN "upload" ELSE "done"]
  /\ UNCHANGED <<scanVars, serverVars, govVars, other_scan>>

\* upload_snapshot (main.rs:141-175) and the server's end of it
\* (server/src/main.rs:94-118): the request may not get through; if it does,
\* the body is deserialized, and only then the handler writes to the store
CliUpload ==
  /\ cli # <<>> /\ cli.pc = "upload"
  /\ \E order \in Perms(DOMAIN cli.stats.extensions),
        now_id \in 1..MaxTime, now_ts \in 1..MaxTime,
        reached \in BOOLEAN, created_ok \in BOOLEAN :
       LET body == UploadBody(cli.stats, order, now_id, now_ts)
           payload == JsonExtract(body)
           handled == reached /\ IsSome(payload)
       IN /\ now_id <= now_ts
          /\ snapshots' = IF handled /\ created_ok
                          THEN StoreCreate(snapshots, Unwrap(payload)) ELSE snapshots
          /\ ingest_resp' = IF handled THEN Some(IngestAck(created_ok)) ELSE ingest_resp
          /\ cli' = [cli EXCEPT
                       !.upload = Some([ body |-> body, reached |-> reached,
                                         store_ok |-> created_ok,
                                         success |-> handled ]),
                       !.pc = "done"]
  /\ UNCHANGED <<vq, vel_resp, hist_resp, scanVars, govVars, other_scan>>

CliNext ==
  \/ CliFetch
  \/ CliWalkRoot
  \/ \E p \in 1..MaxFiles : CliVisit(p)
  \/ CliFinish
  \/ CliUpload

\* ------------------------------------------------------------ specifications
ScanSpecInit == ScanInit /\ ServerInit /\ GovIdle /\ OtherIdle /\ CliIdle
SpecScan == ScanSpecInit /\ [][ScanNext]_vars

ServerSpecInit == ScanIdle /\ ServerInit /\ GovIdle /\ OtherIdle /\ CliIdle
SpecServer == ServerSpecInit /\ [][ServerNext]_vars

MatchNext == VelMatch
MatchSpecInit == ScanIdle /\ MatchInit /\ GovIdle /\ OtherIdle /\ CliIdle
SpecVelocity == MatchSpecInit /\ [][MatchNext]_vars

ReconcileSpecInit == ScanIdle /\ ReconcileInit /\ GovIdle /\ OtherIdle /\ CliIdle
SpecReconcile == ReconcileSpecInit /\ [][MatchNext]_vars

RescanNext == ScanNext \/ Rescan
SpecRescan == ScanSpecInit /\ [][RescanNext]_vars

SpecInterleave == ServerSpecInit /\ [][InterleaveNext]_vars

TwoScansSpecInit == TwoScansInit /\ ServerInit /\ GovIdle /\ CliIdle
SpecTwoScans == TwoScansSpecInit /\ [][TwoScansNext]_vars

CliSpecInit == ScanIdle /\ ServerInit /\ OtherIdle /\ CliInit
SpecCli == CliSpecInit /\ [][CliNext]_vars

GovSpecInit == ScanIdle /\ ServerInit /\ GovInit /\ OtherIdle /\ CliIdle
SpecGovernance == GovSpecInit /\ [][GovNext]_vars

\* ------------------------------------------------- what a scan should report
Readable(p) == tree[p].entry_ok /\ tree[p].meta_ok
Visited == (DOMAIN tree) \ pending
FilesIn(P) == {p \in P : Readable(p) /\ tree[p].kind = "file"}
DirsIn(P) == {p \in P : Readable(p) /\ tree[p].kind = "dir"}
SizeOf == [p \in DOMAIN tree |-> tree[p].len]
SumSizes(P) == SumOver(P, SizeOf)
LowerExt(p) == to_lowercase(Unwrap(tree[p].ext))
WithExt(P) == {p \in FilesIn(P) : IsSome(tree[p].ext)}

Min(a, b) == IF a < b THEN a ELSE b

\* the sizes of the files of P, largest first
RECURSIVE DescSizes(_)
DescSizes(P) ==
  IF P = {} THEN <<>>
  ELSE LET m == CHOOSE p \in P : \A q \in P : tree[q].len <= tree[p].len
       IN <<tree[m].len>> \o DescSizes(P \ {m})

TopKSizes(P, k) == SubSeq(DescSizes(P), 1, Min(k, Cardinality(P)))

SizesOf(records) == [i \in DOMAIN records |-> records[i].size_bytes]
CountIn(seq, n) == Cardinality({i \in DOMAIN seq : seq[i] = n})
SameSizes(a, b) == \A n \in 0..MaxSize : CountIn(a, n) = CountIn(b, n)

\* C1: at every point of a scan, and so in its result, total_size_bytes is the
\* exact sum of the sizes of the regular files visited and total_files their
\* number, whatever top_limit is and whatever order the entries come in.
SizeAdditivity ==
  /\ stats.total_size_bytes = SumSizes(FilesIn(Visited))
  /\ stats.total_files = Cardinality(FilesIn(Visited))
  /\ pc = "done" => Visited = DOMAIN tree

SizeAdditivityWitness ==
  /\ pc = "done" /\ result = Some("Ok")
  /\ Cardinality(FilesIn(DOMAIN tree)) > top_limit
  /\ stats.total_files >= 2
  /\ stats.total_size_bytes = 3

\* C2: the sizes in top_files are the min(K, file count) largest file sizes,
\* in descending order.
TopKDescending ==
  pc = "done" => SizesOf(stats.top_files) = TopKSizes(FilesIn(DOMAIN tree), top_limit)

\* C3 as stated: the tracker never holds more than K records, the state
\* between the push and the eviction included.
HeapNeverExceedsK == Len(top_files_heap) <= top_limit

\* C3 as amended: the tracker holds at most K records whenever no offer is in
\* progress, and at most K + 1 between an offer's push and its eviction.
HeapAtMostKBetweenOffers ==
  /\ pc # "evict" => Len(top_files_heap) <= top_limit
  /\ pc = "evict" => Len(top_files_heap) <= top_limit + 1

HeapFullWitness ==
  /\ pc = "walk" /\ top_limit >= 1
  /\ Len(top_files_heap) = top_limit
  /\ Cardinality(FilesIn(Visited)) > top_limit

\* the records held before the current offer's push, and their smallest size
HeldBefore == Range(top_files_heap) \ {Unwrap(offered)}
MinHeld == CHOOSE n \in {r.size_bytes : r \in HeldBefore} :
             \A r \in HeldBefore : n <= r.size_bytes
OfferOnFull == pc = "evict" /\ top_limit >= 1 /\ Len(top_files_heap) = top_limit + 1
RecordSizes(S) == [n \in 0..MaxSize |-> Cardinality({r \in S : r.size_bytes = n})]

\* C4 as stated: a record offered to a full tracker whose size is not strictly
\* greater than the smallest held size is discarded, the held records (paths
\* included) staying as they were.
OfferNotGreaterDiscarded ==
  [][ (OfferOnFull /\ Unwrap(offered).size_bytes <= MinHeld)
        => Range(top_files_heap') = HeldBefore ]_vars

\* C4 as amended: on a full tracker, a record strictly smaller than the
\* smallest held size is discarded and the held records stay as they were; a
\* strictly larger one is kept and one record of the smallest held size is
\* evicted; for a record of exactly the smallest held size one record of that
\* size is dropped, the offered one or a held one, so the held sizes stay as
\* they were while the held paths may change.
OfferOnFullTracker ==
  [][ OfferOnFull =>
        LET o == Unwrap(offered)
            after == Range(top_files_heap')
        IN /\ Len(top_files_heap') = top_limit
           /\ after \subseteq HeldBefore \cup {o}
           /\ o.size_bytes < MinHeld => after = HeldBefore
           /\ o.size_bytes = MinHeld => RecordSizes(after) = RecordSizes(HeldBefore)
           /\ o.size_bytes > MinHeld =>
                /\ o \in after
                /\ \E r \in HeldBefore : /\ r.size_bytes = MinHeld
                                         /\ after = (HeldBefore \ {r}) \cup {o}
    ]_vars

OfferTieWitness ==
  /\ OfferOnFull
  /\ Unwrap(offered).size_bytes = MinHeld
  /\ Unwrap(offered) \in Range(EvictIfOver(top_files_heap, top_limit))

\* C5: the ledger has an entry exactly for each lower-cased extension of a
\* visited regular file, with the number of those files and the sum of their
\* sizes; a file without extension has no part in the ledger and is counted
\* in the totals.
LedgerExact ==
  LET F == FilesIn(Visited)
      E == WithExt(Visited)
  IN /\ DOMAIN stats.extensions = {LowerExt(p) : p \in E}
     /\ \A x \in DOMAIN stats.extensions :
          LET same == {p \in E : LowerExt(p) = x}
          IN /\ stats.extensions[x].count = Cardinality(same)
             /\ stats.extensions[x].size = SumSizes(same)
     /\ stats.total_files = Cardinality(E) + Cardinality(F \ E)

LedgerWitness ==
  /\ pc = "done"
  /\ \E p, q \in WithExt(DOMAIN tree) :
       /\ tree[p].ext # tree[q].ext
       /\ LowerExt(p) = LowerExt(q)
       /\ stats.extensions[LowerExt(p)].count = 2
  /\ \E p \in FilesIn(DOMAIN tree) : tree[p].ext = None /\ tree[p].len > 0

\* C6: when the root cannot be accessed, scan returns a failure and no
\* ScanStats.
RootUnreadableFails ==
  (pc = "done" /\ ~root_ok) => result = Some("Err")

\* C7: an entry that the walker reports as an error, or whose metadata cannot
\* be read, is skipped: the scan ends Ok and its counters, ledger and top
\* files are those of the readable entries alone.
UnreadableSkipped ==
  pc = "done" =>
    LET F == FilesIn(DOMAIN tree)
        E == WithExt(DOMAIN tree)
    IN /\ result = Some("Ok")
       /\ stats.total_files = Cardinality(F)
       /\ stats.total_size_bytes = SumSizes(F)
       /\ stats.total_folders = Cardinality(DirsIn(DOMAIN tree)) + (IF root_ok THEN 1 ELSE 0)
       /\ DOMAIN stats.extensions = {LowerExt(p) : p \in E}
       /\ \A i \in DOMAIN stats.top_files : stats.top_files[i].path \in F
       /\ SameSizes(SizesOf(stats.top_files), TopKSizes(F, top_limit))

UnreadableWitness ==
  /\ pc = "done" /\ result = Some("Ok")
  /\ \E p \in DOMAIN tree : ~tree[p].entry_ok
  /\ \E p \in DOMAIN tree : tree[p].entry_ok /\ ~tree[p].meta_ok
  /\ stats.total_files = 1 /\ stats.total_size_bytes > 0


\* ------------------------------------------------ what a report should say
StartSnap == Unwrap(vq.start_snap_result.snap)
EndSnap == Unwrap(vq.end_snap_result.snap)
BothResolved == Resolved(vq.start_snap_result) /\ Resolved(vq.end_snap_result)
Reported == vq.pc = "done" /\ IsSome(vel_resp)
Report == Unwrap(vel_resp)

ExactDifferences ==
  /\ Report.t_start = StartSnap.timestamp
  /\ Report.t_end = EndSnap.timestamp
  /\ Report.duration_seconds = EndSnap.timestamp - StartSnap.timestamp
  /\ Report.growth_bytes = EndSnap.total_size_bytes - StartSnap.total_size_bytes
  /\ Report.growth_files = EndSnap.file_count - StartSnap.file_count

\* C8 as stated: the report of two resolved snapshots carries their timestamps
\* and the exact signed differences of timestamps, totals and counts, for
\* every unsigned 64-bit total and count.
VelocityArithmeticExact == (Reported /\ BothResolved) => ExactDifferences

\* C8 as amended: the report of two resolved snapshots carries their
\* timestamps, and the exact signed differences of timestamps, totals and
\* counts whenever each of these differences fits a signed 64-bit integer.
VelocityArithmeticInRange ==
  ( /\ Reported /\ BothResolved
    /\ InI64(EndSnap.timestamp - StartSnap.timestamp)
    /\ InI64(EndSnap.total_size_bytes - StartSnap.total_size_bytes)
    /\ InI64(EndSnap.file_count - StartSnap.file_count) ) => ExactDifferences

VelocityArithmeticWitness ==
  /\ Reported /\ BothResolved
  /\ StartSnap.timestamp = 100 /\ StartSnap.total_size_bytes = 1000
  /\ StartSnap.file_count = 10
  /\ EndSnap.timestamp = 200 /\ EndSnap.total_size_bytes = 1500
  /\ EndSnap.file_count = 12
  /\ Report.duration_seconds = 100 /\ Report.growth_bytes = 500
  /\ Report.growth_files = 2
  /\ Report.bytes_per_second = [num |-> 5, den |-> 1]

\* C9: in the report of two resolved snapshots bytes_per_second is
\* growth_bytes / duration_seconds, a finite number, when duration_seconds > 0
\* and exactly 0 when duration_seconds <= 0; the handler fails only where an
\* integer operation overflowed, never on the division.
ZeroDurationSafe ==
  /\ (Reported /\ BothResolved) =>
       LET v == Report.bytes_per_second IN
       /\ v.den > 0
       /\ Report.duration_seconds > 0 =>
            v.num * Report.duration_seconds = Report.growth_bytes * v.den
       /\ Report.duration_seconds <= 0 => v.num = 0 /\ v.den = 1
  /\ vq.pc = "panicked" =>
       /\ BothResolved
       /\ \E order \in Perms(LeftoverKeys(vq.start_snap_result, vq.end_snap_result)) :
            MatchedReport(vq.agent_id, StartSnap, EndSnap, order).overflow

ZeroDurationWitness ==
  /\ Reported /\ BothResolved
  /\ StartSnap.timestamp = EndSnap.timestamp
  /\ Report.duration_seconds = 0
  /\ Report.growth_bytes = 500
  /\ Report.bytes_per_second = [num |-> 0, den |-> 1]

\* C10: when the start lookup or the end lookup (or both) comes back without
\* a snapshot, get_velocity answers, for the agent asked about, the report
\* with every number 0 and no extension delta, and does not fail.
MissingDataFallback ==
  (vq.pc \in {"done", "panicked"} /\ ~BothResolved) =>
     /\ vq.pc = "done"
     /\ IsSome(vel_resp) =>
          /\ Report.agent_id = vq.agent_id
          /\ Report.t_start = 0 /\ Report.t_end = 0
          /\ Report.duration_seconds = 0
          /\ Report.growth_bytes = 0 /\ Report.growth_files = 0
          /\ Report.bytes_per_second.num = 0
          /\ Report.extension_deltas = <<>>

MissingDataWitness ==
  /\ Reported
  /\ vq.start_snap_result = Ok(None)
  /\ Resolved(vq.end_snap_result)
  /\ EndSnap.timestamp > 0 /\ EndSnap.total_size_bytes > 0
  /\ EndSnap.top_extensions # <<>>
  /\ Report.agent_id = vq.agent_id /\ Report.t_end = 0 /\ Report.growth_bytes = 0

\* ------------------------------------------ what a lookup should come back with
\* the lookup result r for (agent_id, ts), against the store it was run on
EndpointOf(r, agent_id, ts) ==
  LET known == {o \in BagToSet(snapshots) : o.agent_id = agent_id /\ o.timestamp <= ts}
  IN /\ Resolved(r) =>
          LET s == Unwrap(r.snap)
          IN /\ BagIn(s, snapshots)
             /\ s.agent_id = agent_id
             /\ s.timestamp <= ts
             /\ \A o \in BagToSet(snapshots) :
                  o.agent_id = agent_id => ~(s.timestamp < o.timestamp /\ o.timestamp <= ts)
     /\ r.ok => (r.snap = None <=> known = {})

StartLookupStep == vq.pc = "idle" /\ vq'.pc = "end"
EndLookupStep == vq.pc = "end" /\ vq'.pc = "match"

\* C11: each lookup the store answers comes back with a stored snapshot of the
\* agent asked about whose timestamp is the greatest one at or before the
\* requested time, and with nothing exactly when the agent has no snapshot at
\* or before that time; the report's t_start and t_end are the timestamps of
\* the two snapshots, so t_start <= start and t_end <= end.
EndpointResolution ==
  /\ [][ /\ StartLookupStep =>
              EndpointOf(vq'.start_snap_result, vq'.agent_id, vq'.range.start)
         /\ EndLookupStep =>
              EndpointOf(vq'.end_snap_result, vq.agent_id, vq.range.end) ]_vars
  /\ []( (Reported /\ BothResolved) =>
           /\ Report.t_start = StartSnap.timestamp
           /\ Report.t_end = EndSnap.timestamp
           /\ Report.t_start <= vq.range.start
           /\ Report.t_end <= vq.range.end )

EndpointResolutionWitness ==
  /\ Reported /\ BothResolved
  /\ vq.range.start = 1 /\ vq.range.end = 2
  /\ Report.t_start = 1 /\ Report.t_end = 2
  /\ \E o \in BagToSet(snapshots) :
       o.agent_id = vq.agent_id /\ o.timestamp > vq.range.start

\* ------------------------------------- what the extension deltas should be
StartExts == StartSnap.top_extensions
EndExts == EndSnap.top_extensions
NamesIn(exts) == {exts[i][1] : i \in DOMAIN exts}
EntriesOf(exts, x) == {i \in DOMAIN exts : exts[i][1] = x}
ListedOnce(exts, x) == Cardinality(EntriesOf(exts, x)) = 1
EntryOf(exts, x) == exts[CHOOSE i \in DOMAIN exts : exts[i][1] = x]
DeltasOf(x) == {i \in DOMAIN Report.extension_deltas :
                  Report.extension_deltas[i].extension = x}

\* the extensions each list names at most once
PlainNames ==
  {x \in NamesIn(StartExts) \cup NamesIn(EndExts) :
     /\ Cardinality(EntriesOf(StartExts, x)) <= 1
     /\ Cardinality(EntriesOf(EndExts, x)) <= 1}

\* (size delta, count delta) in exact arithmetic
ExpectedDelta(x) ==
  IF ListedOnce(StartExts, x) /\ ListedOnce(EndExts, x)
  THEN << EntryOf(EndExts, x)[2] - EntryOf(StartExts, x)[2],
          EntryOf(EndExts, x)[3] - EntryOf(StartExts, x)[3] >>
  ELSE IF ListedOnce(EndExts, x)
       THEN << EntryOf(EndExts, x)[2], EntryOf(EndExts, x)[3] >>
       ELSE << -EntryOf(StartExts, x)[2], -EntryOf(StartExts, x)[3] >>

HasExpectedDelta(x) ==
  /\ DeltasOf(x) # {}
  /\ \A i \in DeltasOf(x) :
       Report.extension_deltas[i] =
         ExtensionDelta(x, ExpectedDelta(x)[1], ExpectedDelta(x)[2])

\* C12 as stated: an extension in both snapshots has the delta (end.size -
\* start.size, end.count - start.count), one only in the end snapshot
\* (end.size, end.count), one only in the start snapshot (-start.size,
\* -start.count), for every size and count a snapshot can carry.
ExtensionDeltaExact ==
  (Reported /\ BothResolved) => \A x \in PlainNames : HasExpectedDelta(x)

\* C12 as amended: the same three cases, for an extension each snapshot lists
\* at most once, whenever the size delta and the count delta of the case fit a
\* signed 64-bit integer.
ExtensionDeltaInRange ==
  (Reported /\ BothResolved) =>
     \A x \in PlainNames :
       (InI64(ExpectedDelta(x)[1]) /\ InI64(ExpectedDelta(x)[2])) => HasExpectedDelta(x)

ExtensionDeltaWitness ==
  /\ Reported /\ BothResolved
  /\ StartExts = << <<"log", 100, 1>>, <<"bin", 70, 3>> >>
  /\ EndExts = << <<"log", 50, 1>>, <<"tmp", 20, 2>> >>
  /\ Report.extension_deltas =
       << ExtensionDelta("bin", -70, -3), ExtensionDelta("log", -50, 0),
          ExtensionDelta("tmp", 20, 2) >>

\* C13: the report has exactly one delta for each distinct extension of the
\* start or the end snapshot and none for another, an extension repeated
\* within a list included.
OneDeltaPerExtension ==
  (Reported /\ BothResolved) =>
     /\ \A x \in NamesIn(StartExts) \cup NamesIn(EndExts) : Cardinality(DeltasOf(x)) = 1
     /\ \A i \in DOMAIN Report.extension_deltas :
          Report.extension_deltas[i].extension \in NamesIn(StartExts) \cup NamesIn(EndExts)

\* C14: in every report the absolute value of size_delta does not increase
\* from one delta to the next, i64::MIN included.
DeltaOrdering ==
  Reported =>
     \A i, j \in DOMAIN Report.extension_deltas :
       i < j => AbsInt(Report.extension_deltas[i].size_delta)
                  >= AbsInt(Report.extension_deltas[j].size_delta)

\* ------------------------------------------------ what the store should hold
\* the step of an ingest_snapshot call (no other handler answers with an
\* acknowledgement and leaves the velocity call where it is)
IngestStep == vq' = vq /\ IsSome(ingest_resp')
SameKey(a, b) == a.agent_id = b.agent_id /\ a.timestamp = b.timestamp

\* C15: no step updates or deletes a stored record; a successful ingest adds
\* exactly one record, its payload, and nothing else changes the store, so
\* the store holds one record per successful ingest and two ingests of one
\* (agent_id, timestamp) leave two records.
AppendOnlyIngestion ==
  [][ /\ snapshots \sqsubseteq snapshots'
      /\ (IngestStep /\ ingest_resp' = Some("Snapshot stored")) =>
           /\ BagCardinality(snapshots') = BagCardinality(snapshots) + 1
           /\ \E payload \in Payloads : snapshots' = snapshots (+) SetToBag({payload})
      /\ snapshots' # snapshots =>
           (IngestStep /\ ingest_resp' = Some("Snapshot stored")) ]_vars

AppendOnlyWitness ==
  /\ ingest_resp = Some("Snapshot stored")
  /\ BagCardinality(snapshots) = 2
  /\ \E a, b \in BagToSet(snapshots) :
       /\ SameKey(a, b)
       /\ a.total_size_bytes # b.total_size_bytes

History == Unwrap(hist_resp)
StoredAt(agent_id, t) ==
  BagCardinality(
    [s \in {o \in BagToSet(snapshots) : o.agent_id = agent_id /\ o.timestamp = t} |->
       snapshots[s]])

\* C16: the history the store answers with for agent A has one timestamp per
\* stored record of A and none of another agent, in non-increasing order; it
\* is empty when A has no snapshot.
HistoryExact ==
  (IsSome(hist_resp) /\ History.query_result.ok) =>
     /\ \A t \in 0..MaxTime : CountIn(History.sent, t) = StoredAt(History.agent_id, t)
     /\ \A i \in DOMAIN History.sent : History.sent[i] \in 0..MaxTime
     /\ \A i, j \in DOMAIN History.sent : i < j => History.sent[i] >= History.sent[j]
     /\ BagToSet(OfAgent(snapshots, History.agent_id)) = {} => History.sent = <<>>

HistoryWitness ==
  /\ IsSome(hist_resp) /\ History.query_result.ok
  /\ History.sent = <<2, 1>>

\* C18: a store error never aborts a handler: a failed write is acknowledged
\* with the error text and not the success string, a failed history read
\* gives the empty sequence, and a failed read of either endpoint gives the
\* zeroed fallback report.
StoreFailureHandled ==
  /\ [][ (IngestStep /\ snapshots' = snapshots) => ingest_resp' = Some("Error") ]_vars
  /\ []( (IsSome(hist_resp) /\ ~History.query_result.ok) => History.sent = <<>> )
  /\ []( (~vq.start_snap_result.ok \/ ~vq.end_snap_result.ok) =>
           /\ vq.pc # "panicked"
           /\ Reported => Report = ZeroReport(vq.agent_id) )

StoreFailureWitness ==
  /\ Reported
  /\ Resolved(vq.start_snap_result)
  /\ vq.end_snap_result = Err
  /\ \E o \in BagToSet(snapshots) : o.agent_id = vq.agent_id /\ o.timestamp <= vq.range.end
  /\ Report = ZeroReport(vq.agent_id)

\* C17: a second scan of the unchanged tree with the same K returns the
\* ScanStats of the first - totals, ledger, and the top_files records in the
\* same order - whatever order each run visits the entries in.
IdempotentRescan ==
  (pc = "done" /\ IsSome(first_scan)) => stats = Unwrap(first_scan)

\* ------------------------------------------ what the engine should do
Called(op) == IsSome(gov) /\ Unwrap(gov).op = op
Call == Unwrap(gov)

\* C19: the files change only in an execute call with dry_run = false and
\* action Delete, and then by the loss of the file named in the call; an
\* execute call with dry_run = true leaves every file in place, whatever the
\* action.
DryRunSafety ==
  [][ fs' # fs =>
        /\ Called("execute")'
        /\ ~Call'.dry_run
        /\ Call'.policy.action = "Delete"
        /\ Call'.path \in DOMAIN fs
        /\ fs' = [q \in (DOMAIN fs) \ {Call'.path} |-> fs[q]] ]_vars

DryRunWitness ==
  /\ Called("execute")
  /\ Call.dry_run
  /\ Call.policy.action = "Delete"
  /\ Call.path \in DOMAIN fs
  /\ DOMAIN fs = 1..MaxFiles

\* the conditions of a rule, as the rule states them
ExtensionHolds(rule, file) ==
  IsSome(rule.extension) =>
    (IsSome(file.ext) /\ to_lowercase(Unwrap(file.ext)) = Unwrap(rule.extension))
SizeHolds(rule, file) ==
  IsSome(rule.min_size_bytes) => file.len >= Unwrap(rule.min_size_bytes)
AgeHolds(rule, file) ==
  IsSome(rule.min_age_days) =>
    /\ file.modified_ok /\ IsSome(file.elapsed)
    /\ Unwrap(file.elapsed) >= Unwrap(rule.min_age_days) * SecsPerDay

\* C20: evaluate returns true exactly when every configured condition holds:
\* the lower-cased extension equals the rule's, the size is at least
\* min_size_bytes, the age is at least min_age_days days; a condition left as
\* None rejects nothing.
EvaluateIsConjunction ==
  Called("evaluate") =>
    ( Call.returned <=>
        /\ ExtensionHolds(Call.policy.rule, fs[Call.path])
        /\ SizeHolds(Call.policy.rule, fs[Call.path])
        /\ AgeHolds(Call.policy.rule, fs[Call.path]) )

\* C22: for one pair of resolved snapshots every computation of the report
\* gives extension_deltas in the same order: whatever order the leftover
\* start extensions are iterated in, the deltas come out as in the report sent.
DeterministicTieOrder ==
  (Reported /\ BothResolved) =>
     \A order \in Perms(LeftoverKeys(vq.start_snap_result, vq.end_snap_result)) :
       MatchedReport(vq.agent_id, StartSnap, EndSnap, order).report.extension_deltas
         = Report.extension_deltas

\* ------------------------------------------------ what one entry should change
\* the entry the walker yields in this step
VisitStep(p) == pc = "walk" /\ p \in pending /\ pending' = pending \ {p}
CountersOf(st) == <<st.total_files, st.total_size_bytes, st.total_folders>>

\* the ledger after a file with this extension and size, all other entries
\* of the ledger as they were
LedgerAfter(ext, len) ==
  IF IsSome(ext)
  THEN /\ DOMAIN stats'.extensions = DOMAIN stats.extensions \cup {to_lowercase(Unwrap(ext))}
       /\ \A x \in DOMAIN stats.extensions :
            x # to_lowercase(Unwrap(ext)) => stats'.extensions[x] = stats.extensions[x]
  ELSE stats'.extensions = stats.extensions

\* C23: each entry changes the aggregates in one way only: a regular file adds
\* 1 to total_files and its size to total_size_bytes and leaves total_folders;
\* a directory, the root included, adds 1 to total_folders and changes nothing
\* else; any other entry changes no counter, no ledger entry and no held
\* record; and no entry makes the scan fail.
EntryClassification ==
  [][ /\ (pc = "root" /\ pc' = "walk" /\ root_ok) =>
           /\ stats' = [stats EXCEPT !.total_folders = @ + 1]
           /\ top_files_heap' = top_files_heap
      /\ \A p \in pending :
           VisitStep(p) =>
             CASE Readable(p) /\ tree[p].kind = "file" ->
                    /\ CountersOf(stats') =
                         << stats.total_files + 1,
                            stats.total_size_bytes + tree[p].len,
                            stats.total_folders >>
                    /\ LedgerAfter(tree[p].ext, tree[p].len)
               [] Readable(p) /\ tree[p].kind = "dir" ->
                    /\ stats' = [stats EXCEPT !.total_folders = @ + 1]
                    /\ top_files_heap' = top_files_heap
               [] OTHER ->
                    /\ stats' = stats
                    /\ top_files_heap' = top_files_heap
      /\ result' # Some("Err") ]_vars

EntryClassificationWitness ==
  /\ pc = "done" /\ result = Some("Ok")
  /\ \E p, q, r \in DOMAIN tree :
       /\ Readable(p) /\ tree[p].kind = "file" /\ tree[p].len > 0
       /\ Readable(q) /\ tree[q].kind = "dir"
       /\ Readable(r) /\ tree[r].kind = "other"
  /\ stats.total_files = 1 /\ stats.total_folders = 2
  /\ Len(stats.top_files) <= 1

\* ------------------------------------------------ what an agent's results see
\* the stored records of one agent
RecordsIn(store, agent_id) ==
  LET S == {s \in BagToSet(store) : s.agent_id = agent_id}
  IN [s \in S |-> store[s]]

\* C25: what is answered for agent A depends only on the stored snapshots of
\* A: each lookup of a velocity query and each history read is an answer the
\* store could give if it held A's records alone, and a step that leaves A's
\* records as they were (an ingest for another agent, before or during the
\* query) leaves every possible lookup and history answer for A as it was.
PerAgentScoping ==
  [][ /\ StartLookupStep =>
           vq'.start_snap_result \in
             LookupResults(RecordsIn(snapshots, vq'.agent_id), vq'.agent_id, vq'.range.start)
      /\ EndLookupStep =>
           vq'.end_snap_result \in
             LookupResults(RecordsIn(snapshots, vq.agent_id), vq.agent_id, vq.range.end)
      /\ IsSome(hist_resp') =>
           Unwrap(hist_resp').query_result \in
             HistoryResults(RecordsIn(snapshots, Unwrap(hist_resp').agent_id),
                            Unwrap(hist_resp').agent_id)
      /\ \A a \in Agents :
           RecordsIn(snapshots', a) = RecordsIn(snapshots, a) =>
             /\ \A ts \in 0..MaxTime :
                  LookupResults(snapshots', a, ts) = LookupResults(snapshots, a, ts)
             /\ HistoryResults(snapshots', a) = HistoryResults(snapshots, a) ]_vars

PerAgentScopingWitness ==
  /\ Reported /\ BothResolved
  /\ \E o \in BagToSet(snapshots) :
       /\ o.agent_id # vq.agent_id
       /\ o.timestamp <= vq.range.end
       /\ o.timestamp > EndSnap.timestamp
  /\ Report.t_end = EndSnap.timestamp

\* ----------------------------------------------- the duration of a report
\* the original statement of C26: with start <= end and both endpoints
\* resolved, duration_seconds >= 0
NonNegativeDuration ==
  (Reported /\ BothResolved /\ vq.range.start <= vq.range.end) =>
     Report.duration_seconds >= 0

\* C26: for a query with start <= end whose endpoints both resolve, whatever
\* ingests of the same agent come between the two lookups, the start snapshot
\* is not later than the end snapshot (t_start <= t_end), and duration_seconds
\* is their exact difference, so >= 0, whenever that difference fits i64.
NonNegativeDurationInRange ==
  (vq.pc \in {"match", "done", "panicked"} /\ BothResolved
     /\ vq.range.start <= vq.range.end) =>
     /\ StartSnap.timestamp <= EndSnap.timestamp
     /\ (Reported /\ InI64(EndSnap.timestamp - StartSnap.timestamp)) =>
          /\ Report.t_start <= Report.t_end
          /\ Report.duration_seconds = EndSnap.timestamp - StartSnap.timestamp
          /\ Report.duration_seconds >= 0

\* the end snapshot was ingested after the start lookup: it is at or before
\* start, yet the start lookup answered with an older one
NonNegativeDurationWitness ==
  /\ Reported /\ BothResolved
  /\ vq.range.start <= vq.range.end
  /\ EndSnap.timestamp <= vq.range.start
  /\ StartSnap.timestamp < EndSnap.timestamp
  /\ Report.duration_seconds > 0

\* ------------------------------------------------ what a scan alone returns
\* one item of a walk on accumulators of its own
AloneStep(acc, e, p, limit) ==
  IF e.entry_ok /\ e.meta_ok /\ e.kind = "file"
  THEN [ stats |-> CountFile(acc.stats, e),
         heap |-> EvictIfOver(HeapPush(acc.heap, FileRecord(p, e.len)), limit) ]
  ELSE IF e.entry_ok /\ e.meta_ok /\ e.kind = "dir"
       THEN [acc EXCEPT !.stats.total_folders = @ + 1]
       ELSE acc

RECURSIVE AloneWalk(_, _, _, _)
AloneWalk(rt_ok, tr, limit, order) ==
  IF order = <<>>
  THEN [ stats |-> [DefaultStats EXCEPT !.total_folders = IF rt_ok THEN 1 ELSE 0],
         heap |-> <<>> ]
  ELSE AloneStep(AloneWalk(rt_ok, tr, limit, SubSeq(order, 1, Len(order) - 1)),
                 tr[order[Len(order)]], order[Len(order)], limit)

\* every ScanStats a scan of this tree can return when nothing else runs, one
\* for each order the walker can yield the entries in
AloneResults(rt_ok, tr, limit) ==
  { LET acc == AloneWalk(rt_ok, tr, limit, order)
    IN [acc.stats EXCEPT !.top_files = FinalizeTopFiles(acc.heap)] :
      order \in Perms(DOMAIN tr) }

\* C24: with the steps of two scans interleaved in any way, no step of one
\* scan changes anything of the other (no accumulator is shared), the steps
\* that change one scan's accumulators are the steps of that scan's own loop,
\* one after the other, and each scan returns a ScanStats it would return
\* running alone.
ScanIndependence ==
  /\ [][ /\ scanVars' # scanVars => (other_scan' = other_scan /\ ScanNext)
         /\ other_scan' # other_scan => (scanVars' = scanVars /\ OtherNext) ]_vars
  /\ [](pc = "done" => stats \in AloneResults(root_ok, tree, top_limit))
  /\ [](other_scan.pc = "done" =>
          other_scan.stats \in
            AloneResults(other_scan.root_ok, other_scan.tree, other_scan.top_limit))

\* both calls are in the middle of an iteration on the same root, each with
\* counts of its own
ScanIndependenceWitness ==
  /\ pc = "evict" /\ other_scan.pc = "evict"
  /\ other_scan.tree = tree
  /\ stats.total_files = 1 /\ other_scan.stats.total_files = 2
  /\ Len(top_files_heap) = 1 /\ Len(other_scan.top_files_heap) = 2

\* ------------------------------------------------- what an upload should do
Upload == Unwrap(cli.upload)
Uploaded == cli.pc = "done" /\ IsSome(cli.upload)

\* C21: the snapshot the CLI builds from a finished scan is one the ingestion
\* endpoint accepts: when the upload reaches a server whose store works, a
\* snapshot is stored with the scan's total_size_bytes and total_files as
\* total_size_bytes and file_count and with top_extensions of 3-tuples.
UploadCompatible ==
  (Uploaded /\ Upload.reached /\ Upload.store_ok) =>
     \E s \in BagToSet(snapshots) :
       /\ s.total_size_bytes = cli.stats.total_size_bytes
       /\ s.file_count = cli.stats.total_files
       /\ \A i \in DOMAIN s.top_extensions : Len(s.top_extensions[i]) = 3

\* ------------------------------------------- what a CLI run does to the tree
\* C27: every policy the CLI has fetched from the server has action Report,
\* whatever action the server declared, and so no step of a CLI run, with or
\* without --enforce, removes a file of the scanned tree or changes one.
NoDeletionThroughServerPolicies ==
  /\ [][fs' = fs]_vars
  /\ [](\A i \in DOMAIN cli.policies : cli.policies[i].action = "Report")

\* with --enforce and a server declaring DELETE, a policy was executed for
\* real on an old .log file, and the file is still there
NoDeletionWitness ==
  /\ cli.pc = "done" /\ cli.enforce
  /\ \E i \in DOMAIN cli.served : cli.served[i].action = "DELETE"
  /\ IsSome(gov)
  /\ Unwrap(gov).op = "execute" /\ ~Unwrap(gov).dry_run
  /\ Unwrap(gov).path \in DOMAIN fs
  /\ fs[Unwrap(gov).path].ext = Some(LogExt)
  /\ DOMAIN fs = 1..MaxFiles

====
